---- MODULE Spec2Model ----
(***************************************************************************)
(* Model of bulk_edit_custom_fields.py: the paginated search of Jira       *)
(* issues (search_issues_v3), the validator (validate_value), the          *)
(* per-issue field copy (process_issue) and the run (main).                *)
(*                                                                         *)
(* Strings are sequences of one-character strings.  None is the            *)
(* one-element sequence <<"None">>; an absent list is <<None>>.            *)
(***************************************************************************)
EXTENDS Naturals, Integers, Sequences, FiniteSets, TLC

----------------------------------------------------------------------------
(* Bounds of the model *)

\* stand-in for the page size 100 of search_issues_v3 (lines 79 and 91)
PageSize == 2
\* issue keys the store can return are 1..MaxKeys
MaxKeys == 3
\* keys that the store of kind "any" returns are 1..MaxAnyKeys
MaxAnyKeys == 2
\* the store returns an empty page at every offset >= EmptyFrom
EmptyFrom == 4
\* largest --max-results value tried
MaxCap == 3
\* number of process_issue calls on one record in SpecProc
MaxCalls == 2
\* fetch calls after which the restart-drain loop is no longer followed
MaxDrainFetches == 5

(* Program constants *)

\* VALIDATION_PATTERN: \d{5,6}
MinDigits == 5
MaxDigits == 6

----------------------------------------------------------------------------
(* Values *)

None == <<"None">>
NoneList == <<None>>

Min(a, b) == IF a <= b THEN a ELSE b
Max(a, b) == IF a >= b THEN a ELSE b
Range(s) == {s[i] : i \in 1..Len(s)}
CeilDiv(a, b) == (a + b - 1) \div b

\* no run sends this many requests: the offset grows with every non-empty
\* page and the page at or beyond EmptyFrom (or the store's size) is empty
MaxFetches == Max(EmptyFrom, MaxKeys) + 2

\* Python truthiness of an Optional[str]
Truthy(v) == v # None /\ v # <<>>

\* Python truthiness of an Optional[list]
TruthyList(t) == t # NoneList /\ t # <<>>

\* Python truthiness of Optional[int]: None is <<>>, the integer c is <<c>>
NoCap == <<>>
TruthyInt(m) == m # NoCap /\ m[1] # 0

IsSpace(c) == c \in {" ", "\t", "\n"}
IsDigit(c) == c \in {"0", "1", "2", "3", "4", "5", "6", "7", "8", "9"}

RECURSIVE lstrip(_)
lstrip(s) == IF s # <<>> /\ IsSpace(Head(s)) THEN lstrip(Tail(s)) ELSE s

RECURSIVE rstrip(_)
rstrip(s) ==
  IF s # <<>> /\ IsSpace(s[Len(s)]) THEN rstrip(SubSeq(s, 1, Len(s) - 1)) ELSE s

\* str.strip()
strip(s) == rstrip(lstrip(s))

\* the pattern without the anchor at the end
PatternBodyUnanchored(s) ==
  /\ Len(s) >= 2 + MinDigits
  /\ s[1] = "S"
  /\ s[2] = "-"
  /\ \A i \in 3..(2 + MinDigits) : IsDigit(s[i])

\* S-\d{5,6} over the whole of s
PatternBody(s) ==
  /\ Len(s) >= 2 + MinDigits
  /\ Len(s) <= 2 + MaxDigits
  /\ s[1] = "S"
  /\ s[2] = "-"
  /\ \A i \in 3..Len(s) : IsDigit(s[i])

\* VALIDATION_PATTERN.match(s): ^ at the start, $ at the end or just before
\* a final newline
VALIDATION_PATTERN(s) ==
  \/ PatternBody(s)
  \/ /\ s # <<>>
     /\ s[Len(s)] = "\n"
     /\ PatternBody(SubSeq(s, 1, Len(s) - 1))

\* validate_value without the pattern test
ValidateNonEmpty(value) == Truthy(value)

validate_value(value) ==
  IF ~Truthy(value) THEN FALSE ELSE VALIDATION_PATTERN(strip(value))

----------------------------------------------------------------------------
(* process_issue *)

Keys == 1..Max(MaxKeys, MaxAnyKeys)

\* the string as a sequence of characters
S12345 == <<"S", "-", "1", "2", "3", "4", "5">>
S123456 == <<"S", "-", "1", "2", "3", "4", "5", "6">>
LabelX == <<"X">>

\* values of customfield_10213 tried
Sources ==
  { None, <<>>, <<" ">>,
    S12345, <<" ">> \o S12345 \o <<" ">>, S123456,
    <<"S", "-", "1", "2", "3", "4">>,
    <<"s", "-", "1", "2", "3", "4", "5">>,
    S123456 \o <<"7">> }

\* values of customfield_10683 tried
Targets ==
  { NoneList, <<>>, <<LabelX>>, <<S12345>>, <<LabelX, S12345>>,
    <<S123456, LabelX>> }

\* the subsets of the above used in a whole run
RunSources == { None, <<"S", "-", "1", "2", "3", "4">>,
                <<" ">> \o S12345 \o <<" ">> }
RunTargets == { <<>>, <<LabelX>>, <<LabelX, S12345>> }

NoResult == [key |-> 0, success |-> FALSE, message |-> "", source_value |-> None,
             updated |-> FALSE]

\* cleaned_value not in current_target, negated
InTarget(cleaned_value, current_target) ==
  \E i \in 1..Len(current_target) : current_target[i] = cleaned_value

\* PrepareUpdate without the membership test: the value is appended even
\* when the target already has it
PrepareUpdateAlwaysAppend(cleaned_value, current_target) ==
  IF TruthyList(current_target)
    THEN [new_value |-> current_target \o <<cleaned_value>>, already |-> FALSE]
    ELSE [new_value |-> <<cleaned_value>>, already |-> FALSE]

\* PrepareUpdate that replaces the target instead of appending to it
PrepareUpdateReplace(cleaned_value, current_target) ==
  [new_value |-> <<cleaned_value>>,
   already |-> TruthyList(current_target)
               /\ InTarget(cleaned_value, current_target)]

\* the value prepared for the update, and whether the function returns
\* early because the value is already there
PrepareUpdate(cleaned_value, current_target) ==
  IF TruthyList(current_target)
    THEN IF ~InTarget(cleaned_value, current_target)
           THEN [new_value |-> current_target \o <<cleaned_value>>,
                 already |-> FALSE]
           ELSE [new_value |-> <<cleaned_value>>, already |-> TRUE]
    ELSE [new_value |-> <<cleaned_value>>, already |-> FALSE]

\* process_issue without the dry-run return
DryRunIgnored(dry) == FALSE

\* if dry_run: return before issue.update
DryRunReturns(dry) == dry

\* One call of process_issue on an issue with the given fields.  update_ok
\* is whether issue.update returns (TRUE) or raises (FALSE).  The value is
\* the returned dict, whether issue.update was called, and with what.
process_issue(issue_key, source_value, current_target, dry, update_ok) ==
  LET base == [key |-> issue_key, success |-> FALSE, message |-> "",
               source_value |-> source_value, updated |-> FALSE]
      none == [update_called |-> FALSE, new_value |-> <<>>]
      cleaned_value == strip(source_value)
      prep == PrepareUpdate(cleaned_value, current_target)
  IN
  IF ~Truthy(source_value)
    THEN [result |-> [base EXCEPT !.message = "No value"]] @@ none
  ELSE IF ~validate_value(cleaned_value)
    THEN [result |-> [base EXCEPT !.message = "does not match pattern"]] @@ none
  ELSE IF prep.already
    THEN [result |-> [base EXCEPT !.message = "already exists",
                                  !.success = TRUE]] @@ none
  ELSE IF DryRunReturns(dry)
    THEN [result |-> [base EXCEPT !.message = "[DRY RUN] Would update",
                                  !.success = TRUE]] @@ none
  ELSE IF update_ok
    THEN [result |-> [base EXCEPT !.message = "Successfully updated",
                                  !.success = TRUE, !.updated = TRUE],
          update_called |-> TRUE, new_value |-> prep.new_value]
  ELSE [result |-> [base EXCEPT !.message = "Jira API error"],
        update_called |-> TRUE, new_value |-> prep.new_value]

\* the counters with a failed result counted as skipped
CountFailureAsSkipped(results, result) ==
  LET r1 == [results EXCEPT !.processed = @ + 1] IN
  IF result.success /\ result.updated
    THEN [r1 EXCEPT !.updated = @ + 1]
    ELSE [r1 EXCEPT !.skipped = @ + 1]

\* the counters with an updated record counted as skipped as well
CountUpdatedTwice(results, result) ==
  LET r1 == [results EXCEPT !.processed = @ + 1] IN
  IF result.success
    THEN IF result.updated
           THEN [r1 EXCEPT !.updated = @ + 1, !.skipped = @ + 1]
           ELSE [r1 EXCEPT !.skipped = @ + 1]
    ELSE [r1 EXCEPT !.errors = @ + 1]

\* results[...] += 1 in main, from the dict process_issue returned
Count(results, result) ==
  LET r1 == [results EXCEPT !.processed = @ + 1] IN
  IF result.success
    THEN IF result.updated
           THEN [r1 EXCEPT !.updated = @ + 1]
           ELSE [r1 EXCEPT !.skipped = @ + 1]
    ELSE [r1 EXCEPT !.errors = @ + 1]

----------------------------------------------------------------------------
(* The Issue Store's answers to GET /rest/api/3/search/jql *)

RECURSIVE SeqsUpTo(_, _)
\* the sequences over S of length at most n
SeqsUpTo(S, n) ==
  IF n = 0 THEN {<<>>}
  ELSE LET shorter == SeqsUpTo(S, n - 1) IN
       shorter \cup {Append(q, x) : q \in {r \in shorter : Len(r) = n - 1}, x \in S}

\* keys k+1..k+n in order
KeyRun(k, n) == [i \in 1..n |-> k + i]

\* The responses with status 200 a store of the given kind may give to a
\* request for maxResults issues from startAt:
\*   "full"  - n distinct issues in a fixed order, every page as long as it
\*             can be, the total reported as tot
\*   "short" - the same, but a page may be any non-empty prefix
\*   "any"   - any page of at most maxResults keys (repeats allowed) and any
\*             total, below offset EmptyFrom; empty pages from there on
StoreResponses(kind, n, tot, startAt, maxResults) ==
  LET avail == Min(maxResults, Max(n - startAt, 0)) IN
  CASE kind = "full" ->
         {[issues |-> KeyRun(startAt, avail), total |-> tot]}
    [] kind = "short" ->
         IF avail = 0 THEN {[issues |-> <<>>, total |-> tot]}
         ELSE {[issues |-> KeyRun(startAt, m), total |-> tot] : m \in 1..avail}
    [] OTHER ->
         IF startAt >= EmptyFrom
           THEN {[issues |-> <<>>, total |-> t] : t \in 0..(EmptyFrom + 1)}
           ELSE {[issues |-> q, total |-> t] :
                   q \in SeqsUpTo(1..MaxAnyKeys, maxResults), t \in 0..(EmptyFrom + 1)}

----------------------------------------------------------------------------
(* search_issues_v3 *)

\* remaining = max_results - len(all_issues)
Remaining(max_results, all_issues) == max_results[1] - Len(all_issues)

\* the loop's first break: a truthy max_results with nothing remaining
CapBreaks(max_results, all_issues) ==
  TruthyInt(max_results) /\ Remaining(max_results, all_issues) <= 0

\* the page size left as it is when a cap is given
PageSizeIgnoringCap(max_results, all_issues, page_size) == page_size

\* page_size for the next request
NextPageSize(max_results, all_issues, page_size) ==
  IF TruthyInt(max_results)
    THEN Min(PageSize, Remaining(max_results, all_issues))
    ELSE page_size

\* the for loop without the seen_keys test
DedupNone(all_issues, issues_data) == all_issues \o issues_data

RECURSIVE Dedup(_, _)
\* the for loop over issues_data: a key in seen_keys is dropped, any other
\* is appended to all_issues (seen_keys is the set of keys of all_issues)
Dedup(all_issues, issues_data) ==
  IF issues_data = <<>> THEN all_issues
  ELSE IF Head(issues_data) \in Range(all_issues)
         THEN Dedup(all_issues, Tail(issues_data))
         ELSE Dedup(Append(all_issues, Head(issues_data)), Tail(issues_data))

\* the offset left where it is
AdvanceNot(start_at, issues_data) == start_at

\* the offset advanced by the size of the page asked for
AdvanceByPageSize(start_at, issues_data) == start_at + PageSize

\* start_at += len(issues_data)
AdvanceStartAt(start_at, issues_data) == start_at + Len(issues_data)

\* the stop conditions with a page shorter than the page size taken as the
\* last page
LoopStopsOnShortPage(issues_data, total, new_start_at, max_results, fetched_count) ==
  \/ Len(issues_data) < PageSize
  \/ total > 0 /\ new_start_at >= total
  \/ TruthyInt(max_results) /\ fetched_count >= max_results[1]

\* the stop conditions without the one on the reported total
LoopStopsNoTotal(issues_data, total, new_start_at, max_results, fetched_count) ==
  \/ Len(issues_data) = 0
  \/ TruthyInt(max_results) /\ fetched_count >= max_results[1]

\* the three stop conditions after a batch
LoopStops(issues_data, total, new_start_at, max_results, fetched_count) ==
  \/ Len(issues_data) = 0
  \/ total > 0 /\ new_start_at >= total
  \/ TruthyInt(max_results) /\ fetched_count >= max_results[1]

----------------------------------------------------------------------------
(* State *)

VARIABLES
  pc,          \* where main is: "connect", "search" (at the top of the while
               \* loop), "fetched", "process", "done", "abort"
  exit_code,   \* the process exit code once main has ended
  dry_run,     \* main's dry_run argument
  max_results, \* main's max_results argument: NoCap or <<c>>
  store,       \* the Issue Store's kind, size and reported total
  all_issues,  \* search_issues_v3: keys of the issues accepted so far
  seen_keys,   \* search_issues_v3: the keys seen
  start_at,    \* search_issues_v3: offset of the next request
  page_size,   \* search_issues_v3: maxResults of the next request
  fetchLog,    \* search_issues_v3: the requests it has sent, in order
  fetch_count, \* the number of requests sent in the run
  duplicates,  \* the number of duplicate issues dropped in the run
  idx,         \* main: position of the next issue to process
  results,     \* main: the four counters
  result,      \* the dict the last process_issue call returned
  update,      \* the last process_issue call's issue.update, if any
  procCount,   \* per key, the number of process_issue calls
  updCalls,    \* per key, the number of issue.update calls
  issue,       \* SpecProc: the fields of the one issue in the store
  calls,       \* SpecProc: process_issue calls made on it
  drain,       \* SpecDrain: the state of a restart-drain run
  validation   \* SpecValidate: the input of validate_value and its result

runVars == <<pc, exit_code, dry_run, max_results, store, all_issues, seen_keys,
             start_at, page_size, fetchLog, fetch_count, duplicates, idx,
             procCount, updCalls>>
procVars == <<issue, calls, drain, validation>>
vars == <<runVars, results, result, update, procVars>>

NoUpdate == [called |-> FALSE, key |-> 0, current_target |-> <<>>,
             new_value |-> <<>>, applied |-> FALSE]
NoIssue == [source |-> None, target |-> NoneList]
NoDrain == [pc |-> "off", n |-> 0, set |-> <<>>, batch |-> <<>>, fetches |-> 0,
            offsets |-> {}, failed |-> FALSE]
NoValidation == [value |-> None, done |-> FALSE, valid |-> FALSE]
ZeroCounters == [processed |-> 0, updated |-> 0, skipped |-> 0, errors |-> 0]

\* --max-results is any integer (type=int), or absent
Caps == {NoCap} \cup {<<c>> : c \in (-1)..MaxCap}

Stores ==
  UNION {{[kind |-> k, n |-> n, total |-> t] :
            k \in {"full", "short"}, t \in {0, n}} : n \in 0..MaxKeys}
  \cup {[kind |-> "any", n |-> 0, total |-> 0]}

\* the state when main is entered
Init ==
  /\ pc = "connect"
  /\ exit_code = 0
  /\ dry_run \in BOOLEAN
  /\ max_results \in Caps
  /\ store \in Stores
  /\ all_issues = <<>>
  /\ seen_keys = {}
  /\ start_at = 0
  /\ page_size = PageSize
  /\ fetchLog = <<>>
  /\ fetch_count = 0
  /\ duplicates = 0
  /\ idx = 0
  /\ results = ZeroCounters
  /\ result = NoResult
  /\ update = NoUpdate
  /\ procCount = [k \in Keys |-> 0]
  /\ updCalls = [k \in Keys |-> 0]
  /\ issue = NoIssue
  /\ calls = 0
  /\ drain = NoDrain
  /\ validation = NoValidation

----------------------------------------------------------------------------
(* main and search_issues_v3 *)

\* connect_to_jira returns, or raises and main exits with 1
Connect ==
  /\ pc = "connect"
  /\ \E ok \in BOOLEAN :
       /\ pc' = IF ok THEN "search" ELSE "abort"
       /\ exit_code' = IF ok THEN 0 ELSE 1
  /\ UNCHANGED <<dry_run, max_results, store, all_issues, seen_keys, start_at,
                 page_size, fetchLog, fetch_count, duplicates, idx, procCount, updCalls, results, result,
                 update, procVars>>

\* while True: ... if remaining <= 0: break
CapBreak ==
  /\ pc = "search"
  /\ CapBreaks(max_results, all_issues)
  /\ pc' = "fetched"
  /\ UNCHANGED <<exit_code, dry_run, max_results, store, all_issues, seen_keys,
                 start_at, page_size, fetchLog, fetch_count, duplicates, idx, procCount, updCalls,
                 results, result, update, procVars>>

\* one iteration of the while loop whose request is answered with 200
FetchBatch ==
  /\ pc = "search"
  /\ ~CapBreaks(max_results, all_issues)
  /\ fetch_count < MaxFetches
  /\ LET size == NextPageSize(max_results, all_issues, page_size) IN
     \E resp \in StoreResponses(store.kind, store.n, store.total, start_at, size) :
       LET issues_data == resp.issues
           total == resp.total
           accepted == Dedup(all_issues, issues_data)
           new_start_at == AdvanceStartAt(start_at, issues_data)
       IN
       /\ page_size' = size
       /\ fetchLog' = Append(fetchLog,
                             [startAt |-> start_at, maxResults |-> size,
                              status |-> 200, returned |-> Len(issues_data),
                              accepted |-> Len(all_issues)])
       /\ fetch_count' = fetch_count + 1
       /\ duplicates' = duplicates + Len(issues_data)
                           - (Len(accepted) - Len(all_issues))
       /\ all_issues' = accepted
       /\ seen_keys' = Range(accepted)
       /\ start_at' = new_start_at
       /\ pc' = IF LoopStops(issues_data, total, new_start_at, max_results,
                             Len(accepted))
                  THEN "fetched" ELSE "search"
  /\ UNCHANGED <<exit_code, dry_run, max_results, store, idx, procCount,
                 updCalls, results, result, update, procVars>>

\* a failed request that is logged and sent again instead of raising
FetchFailRetry ==
  /\ pc = "search"
  /\ ~CapBreaks(max_results, all_issues)
  /\ LET size == NextPageSize(max_results, all_issues, page_size) IN
       /\ page_size' = size
       /\ fetchLog' = Append(fetchLog,
                             [startAt |-> start_at, maxResults |-> size,
                              status |-> 500, returned |-> 0,
                              accepted |-> Len(all_issues)])
       /\ fetch_count' = fetch_count + 1
  /\ UNCHANGED <<pc, exit_code, duplicates, dry_run, max_results, store,
                 all_issues, seen_keys, start_at, idx, procCount, updCalls,
                 results, result, update, procVars>>

\* one iteration whose request is answered with another status: JIRAError
\* is raised, main logs it and exits with 1
FetchFail ==
  /\ pc = "search"
  /\ ~CapBreaks(max_results, all_issues)
  /\ fetch_count < MaxFetches
  /\ LET size == NextPageSize(max_results, all_issues, page_size) IN
       /\ page_size' = size
       /\ fetchLog' = Append(fetchLog,
                             [startAt |-> start_at, maxResults |-> size,
                              status |-> 500, returned |-> 0,
                              accepted |-> Len(all_issues)])
       /\ fetch_count' = fetch_count + 1
  /\ duplicates' = duplicates
  /\ pc' = "abort"
  /\ exit_code' = 1
  /\ UNCHANGED <<dry_run, max_results, store, all_issues, seen_keys, start_at,
                 idx, procCount, updCalls, results, result, update, procVars>>

\* search_issues_v3 returns all_issues and its other locals are gone; main
\* returns when nothing was found, else starts the for loop
StartProcessing ==
  /\ pc = "fetched"
  /\ IF Len(all_issues) = 0
       THEN pc' = "done" /\ idx' = idx
       ELSE pc' = "process" /\ idx' = 1
  /\ seen_keys' = {}
  /\ start_at' = 0
  /\ page_size' = PageSize
  /\ fetchLog' = <<>>
  /\ results' = ZeroCounters
  /\ UNCHANGED <<exit_code, dry_run, max_results, store, all_issues,
                 fetch_count, duplicates, procCount, updCalls, result, update, procVars>>

\* one iteration of the for loop: process_issue on the next issue, then the
\* counters
ProcessNext ==
  /\ pc = "process"
  /\ idx <= Len(all_issues)
  /\ \E source_value \in RunSources, current_target \in RunTargets,
        update_ok \in BOOLEAN :
       LET key == all_issues[idx]
           out == process_issue(key, source_value, current_target, dry_run,
                                update_ok)
       IN
       /\ result' = out.result
       /\ update' = IF out.update_called
                      THEN [called |-> TRUE, key |-> key,
                            current_target |-> current_target,
                            new_value |-> out.new_value, applied |-> update_ok]
                      ELSE NoUpdate
       /\ results' = Count(results, out.result)
       /\ procCount' = [procCount EXCEPT ![key] = @ + 1]
       /\ updCalls' = [updCalls EXCEPT
                         ![key] = IF out.update_called THEN @ + 1 ELSE @]
  /\ idx' = idx + 1
  /\ UNCHANGED <<pc, exit_code, dry_run, max_results, store, all_issues,
                 seen_keys, start_at, page_size, fetchLog, fetch_count, duplicates, procVars>>

\* main going back to the search after the batch is processed
SummaryThenSearch ==
  /\ pc = "process"
  /\ idx > Len(all_issues)
  /\ pc' = "search"
  /\ UNCHANGED <<exit_code, dry_run, max_results, store, all_issues, seen_keys,
                 start_at, page_size, fetchLog, fetch_count, duplicates, idx,
                 procCount, updCalls, results, result, update, procVars>>

\* the summary after the last issue
Summary ==
  /\ pc = "process"
  /\ idx > Len(all_issues)
  /\ pc' = "done"
  /\ UNCHANGED <<exit_code, dry_run, max_results, store, all_issues, seen_keys,
                 start_at, page_size, fetchLog, fetch_count, duplicates, idx, procCount, updCalls,
                 results, result, update, procVars>>

Next ==
  \/ Connect
  \/ CapBreak
  \/ FetchBatch
  \/ FetchFail
  \/ StartProcessing
  \/ ProcessNext
  \/ Summary

Spec == Init /\ [][Next]_vars

\* main runs on: a step that can be taken is taken, every request is
\* answered
FairSpec == Spec /\ WF_vars(Next)

----------------------------------------------------------------------------
(* process_issue called repeatedly on one issue *)

\* one issue with any of the field values tried, and either mode
InitProc ==
  /\ pc = "proc"
  /\ exit_code = 0
  /\ dry_run \in BOOLEAN
  /\ max_results = NoCap
  /\ store = [kind |-> "full", n |-> 1, total |-> 1]
  /\ all_issues = <<1>>
  /\ seen_keys = {1}
  /\ start_at = 0
  /\ page_size = PageSize
  /\ fetchLog = <<>>
  /\ fetch_count = 0
  /\ duplicates = 0
  /\ idx = 1
  /\ results = ZeroCounters
  /\ result = NoResult
  /\ update = NoUpdate
  /\ procCount = [k \in Keys |-> 0]
  /\ updCalls = [k \in Keys |-> 0]
  /\ issue \in [source : Sources, target : Targets]
  /\ calls = 0
  /\ drain = NoDrain
  /\ validation = NoValidation

\* process_issue on the issue as the store now has it; an update that
\* succeeds sets the issue's target field to the value sent
ProcessAgain ==
  /\ pc = "proc"
  /\ calls < MaxCalls
  /\ \E update_ok \in BOOLEAN :
       LET out == process_issue(1, issue.source, issue.target, dry_run, update_ok)
       IN
       /\ result' = out.result
       /\ update' = IF out.update_called
                      THEN [called |-> TRUE, key |-> 1,
                            current_target |-> issue.target,
                            new_value |-> out.new_value, applied |-> update_ok]
                      ELSE NoUpdate
       /\ results' = Count(results, out.result)
       /\ procCount' = [procCount EXCEPT ![1] = @ + 1]
       /\ updCalls' = [updCalls EXCEPT ![1] = IF out.update_called THEN @ + 1 ELSE @]
       /\ issue' = IF out.update_called /\ update_ok
                     THEN [issue EXCEPT !.target = out.new_value]
                     ELSE issue
  /\ calls' = calls + 1
  /\ UNCHANGED <<pc, exit_code, dry_run, max_results, store, all_issues,
                 seen_keys, start_at, page_size, fetchLog, fetch_count,
                 duplicates, idx, drain, validation>>

NextProc == ProcessAgain

SpecProc == InitProc /\ [][NextProc]_vars

----------------------------------------------------------------------------
(* The restart-drain policy *)

\* a batch of one record whatever the page size
DrainBatchOne(set) == SubSeq(set, 1, Min(1, Len(set)))

\* a batch of up to PageSize records from offset 0 of the current result set
DrainBatch(set) == SubSeq(set, 1, Min(PageSize, Len(set)))

\* the result set without the record k
RECURSIVE Without(_, _)
Without(set, k) ==
  IF set = <<>> THEN <<>>
  ELSE IF Head(set) = k THEN Tail(set)
  ELSE <<Head(set)>> \o Without(Tail(set), k)

\* n matching records, none processed yet
InitDrain ==
  /\ pc = "drain"
  /\ exit_code = 0
  /\ dry_run \in BOOLEAN
  /\ max_results = NoCap
  /\ store = [kind |-> "full", n |-> 0, total |-> 0]
  /\ all_issues = <<>>
  /\ seen_keys = {}
  /\ start_at = 0
  /\ page_size = PageSize
  /\ fetchLog = <<>>
  /\ fetch_count = 0
  /\ duplicates = 0
  /\ idx = 0
  /\ results = ZeroCounters
  /\ result = NoResult
  /\ update = NoUpdate
  /\ procCount = [k \in Keys |-> 0]
  /\ updCalls = [k \in Keys |-> 0]
  /\ issue = NoIssue
  /\ calls = 0
  /\ \E n \in 0..MaxKeys :
       drain = [pc |-> "fetch", n |-> n, set |-> KeyRun(0, n), batch |-> <<>>,
                fetches |-> 0, offsets |-> {}, failed |-> FALSE]
  /\ validation = NoValidation

\* nextBatch: request a batch from offset 0; an empty batch ends the run
DrainFetch ==
  /\ drain.pc = "fetch"
  /\ drain.fetches < MaxDrainFetches
  /\ LET batch == DrainBatch(drain.set) IN
     drain' = [drain EXCEPT !.batch = batch,
                            !.fetches = @ + 1,
                            !.offsets = @ \cup {0},
                            !.pc = IF batch = <<>> THEN "done" ELSE "process"]
  /\ UNCHANGED <<runVars, results, result, update, issue, calls, validation>>

\* the Record Processor on the next record of the batch; a record that was
\* successfully mutated leaves the result set
DrainProcess ==
  /\ drain.pc = "process"
  /\ \E source_value \in RunSources, update_ok \in BOOLEAN :
       LET key == Head(drain.batch)
           out == process_issue(key, source_value, <<>>, dry_run, update_ok)
           mutated == out.update_called /\ update_ok
           rest == Tail(drain.batch)
       IN
       /\ result' = out.result
       /\ results' = Count(results, out.result)
       /\ drain' = [drain EXCEPT
                      !.set = IF mutated THEN Without(@, key) ELSE @,
                      !.failed = @ \/ ~mutated,
                      !.batch = rest,
                      !.pc = IF rest = <<>> THEN "fetch" ELSE "process"]
  /\ UNCHANGED <<runVars, update, issue, calls, validation>>

NextDrain ==
  \/ DrainFetch
  \/ DrainProcess

SpecDrain == InitDrain /\ [][NextDrain]_vars

----------------------------------------------------------------------------
(* validate_value on one input *)

Leading == {<<>>, <<" ">>, <<"\t", " ">>, <<"\n">>, <<"X">>}
Prefixes == {<<"S", "-">>, <<"s", "-">>, <<"S">>, <<"S", "-", "-">>,
             <<"T", "-">>, <<"-", "S">>}
Trailing == {<<>>, <<" ">>, <<"\n">>, <<"X">>, <<" ", "X">>}

\* the sequences over S of length lo..hi
SeqsBetween(S, lo, hi) == {q \in SeqsUpTo(S, hi) : Len(q) >= lo}

\* the inputs tried: None, empty and blank strings, and every leading part,
\* prefix, run of one digit too few to one too many over a digit and a
\* letter, and trailing part
Values ==
  {None, <<>>, <<" ">>, <<" ", "\t">>, <<"S", "-">>,
   <<"S", "-", "1", "2", " ", "3", "4", "5">>}
  \cup {l \o p \o d \o t :
          l \in Leading, p \in Prefixes,
          d \in SeqsBetween({"7", "x"}, MinDigits - 1, MaxDigits + 1),
          t \in Trailing}

InitValidate ==
  /\ pc = "validate"
  /\ exit_code = 0
  /\ dry_run = FALSE
  /\ max_results = NoCap
  /\ store = [kind |-> "full", n |-> 0, total |-> 0]
  /\ all_issues = <<>>
  /\ seen_keys = {}
  /\ start_at = 0
  /\ page_size = PageSize
  /\ fetchLog = <<>>
  /\ fetch_count = 0
  /\ duplicates = 0
  /\ idx = 0
  /\ results = ZeroCounters
  /\ result = NoResult
  /\ update = NoUpdate
  /\ procCount = [k \in Keys |-> 0]
  /\ updCalls = [k \in Keys |-> 0]
  /\ issue = NoIssue
  /\ calls = 0
  /\ drain = NoDrain
  /\ validation \in {[value |-> v, done |-> FALSE, valid |-> FALSE] : v \in Values}

\* the call validate_value(value)
Validate ==
  /\ pc = "validate"
  /\ ~validation.done
  /\ validation' = [validation EXCEPT !.done = TRUE,
                                      !.valid = validate_value(validation.value)]
  /\ UNCHANGED <<runVars, results, result, update, issue, calls, drain>>

NextValidate == Validate

SpecValidate == InitValidate /\ [][NextValidate]_vars

----------------------------------------------------------------------------
(* Properties *)

\* the source value is absent or empty, or its trimmed form fails the
\* validator
Unusable(source_value) ==
  ~Truthy(source_value) \/ ~validate_value(strip(source_value))

Contains(list, v) == \E i \in 1..Len(list) : list[i] = v

\* C1: every record whose source field is absent or empty, or whose trimmed
\* source value fails validation, is counted in 'skipped' and not in
\* 'errors'.
C1_UnusableCountedSkipped ==
  [][(pc = "process" /\ idx' = idx + 1 /\ Unusable(result'.source_value))
       => (results'.skipped = results.skipped + 1
           /\ results'.errors = results.errors)]_vars

\* C2: in a dry run process_issue never calls issue.update, for any record,
\* and the 'updated' counter stays 0.
C2_DryRunPurity ==
  dry_run => /\ \A k \in Keys : updCalls[k] = 0
             /\ ~update.called
             /\ ~result.updated
             /\ results.updated = 0

C2_Witness ==
  /\ dry_run
  /\ pc = "done"
  /\ results.processed >= 2
  /\ result.message = "[DRY RUN] Would update"

\* the store holds store.n distinct records in a fixed order and reports
\* their number or 0
StableStore == store.kind \in {"full", "short"}

\* C3: with a cap c >= 1 and a store holding N >= c distinct records, every
\* request asks for at most min(page size, c - accepted so far) issues, no
\* request is sent once c issues are accepted, and the run processes
\* exactly c records.
C3_CapEnforcement ==
  (max_results # NoCap /\ max_results[1] >= 1 /\ StableStore
   /\ store.n >= max_results[1]) =>
    LET c == max_results[1] IN
    /\ \A i \in 1..Len(fetchLog) :
         /\ fetchLog[i].accepted < c
         /\ fetchLog[i].maxResults <= Min(PageSize, c - fetchLog[i].accepted)
    /\ Len(all_issues) >= c => pc # "search"
    /\ pc \in {"fetched", "process", "done"} => Len(all_issues) = c
    /\ pc = "done" => results.processed = c

C3_Witness ==
  /\ pc = "done"
  /\ TruthyInt(max_results)
  /\ store.kind = "short"
  /\ store.n > max_results[1]
  /\ fetch_count >= 2
  /\ results.processed = max_results[1]

\* C4: whenever a cap is supplied, 0 included, 'processed' never exceeds it
\* and no batch is requested while the cap is already reached.
C4_CapNeverExceeded ==
  (max_results # NoCap /\ max_results[1] >= 0) =>
    /\ results.processed <= max_results[1]
    /\ Len(all_issues) <= max_results[1]
    /\ \A i \in 1..Len(fetchLog) : fetchLog[i].accepted < max_results[1]

\* C5: an identifier already seen in the run is dropped: no key is accepted
\* twice, each key is processed at most once and updated at most once, and
\* the counters count the accepted keys only.
C5_NoRepeat ==
  /\ \A i, j \in 1..Len(all_issues) : i # j => all_issues[i] # all_issues[j]
  /\ \A k \in Keys : procCount[k] <= 1 /\ updCalls[k] <= 1
  /\ results.processed = Cardinality({k \in Keys : procCount[k] = 1})
  /\ results.processed <= Len(all_issues)
  /\ results.updated + results.skipped + results.errors <= Len(all_issues)

C5_Witness ==
  /\ pc = "done"
  /\ duplicates >= 2
  /\ results.processed = 2
  /\ results.updated = 2

\* C6 as stated: with a store that returns nothing at or beyond the total it
\* reports, the fetch loop ends after at most ceil(total / page size)
\* requests.
C6_TerminationBound ==
  (StableStore /\ store.total = store.n) =>
    fetch_count <= CeilDiv(store.total, PageSize)

\* C6 amended: with a store that holds as many distinct records as it
\* reports and returns every page as full as it can be, the fetch loop sends
\* at most max(1, ceil(total / page size)) requests.
C6_FullPageBound ==
  (store.kind = "full" /\ store.total = store.n) =>
    fetch_count <= Max(1, CeilDiv(store.total, PageSize))

C6_Witness ==
  /\ store.kind = "full"
  /\ store.total = store.n
  /\ store.n > PageSize
  /\ max_results = NoCap
  /\ pc = "fetched"
  /\ fetch_count = CeilDiv(store.total, PageSize)

\* C7: the offset starts at 0, each request's offset is the previous one's
\* plus the number of records that request returned, duplicates included,
\* and no two requests of a run use the same offset.
C7_OffsetProgression ==
  /\ start_at >= 0
  /\ fetchLog = <<>> => start_at = 0
  /\ fetchLog # <<>> =>
       /\ fetchLog[1].startAt = 0
       /\ start_at = fetchLog[Len(fetchLog)].startAt
                     + fetchLog[Len(fetchLog)].returned
  /\ \A i \in 1..(Len(fetchLog) - 1) :
       /\ fetchLog[i + 1].startAt = fetchLog[i].startAt + fetchLog[i].returned
       /\ fetchLog[i + 1].startAt >= fetchLog[i].startAt
  /\ \A i, j \in 1..Len(fetchLog) :
       i # j => fetchLog[i].startAt # fetchLog[j].startAt

C7_Witness ==
  /\ Len(fetchLog) >= 3
  /\ duplicates >= 1
  /\ start_at > Len(all_issues)
  /\ pc = "fetched"

C9_Idempotence ==
  [][(calls' = calls + 1
      /\ ~Unusable(issue.source)
      /\ issue.target # NoneList
      /\ Contains(issue.target, strip(issue.source)))
       => (/\ result'.success
           /\ ~result'.updated
           /\ ~update'.called
           /\ updCalls' = updCalls
           /\ issue' = issue)]_vars

C9_Witness ==
  /\ calls = 2
  /\ ~dry_run
  /\ issue.target = <<LabelX, S12345>>
  /\ strip(issue.source) = S12345
  /\ result.success
  /\ ~result.updated
  /\ updCalls[1] = 0

\* C10: the value process_issue writes is the existing target values in
\* order followed by the validated value, which was not among them, when the
\* target was non-empty, and the validated value alone when it was empty.
C10_UnionPreserving ==
  update.called =>
    LET v == strip(result.source_value)
        old == update.current_target
        new == update.new_value
    IN
    /\ ~Unusable(result.source_value)
    /\ IF old = NoneList \/ old = <<>>
         THEN new = <<v>>
         ELSE /\ Len(new) = Len(old) + 1
              /\ SubSeq(new, 1, Len(old)) = old
              /\ new[Len(new)] = v
              /\ ~Contains(old, v)
    /\ update.applied => issue.target = new

C10_Witness ==
  /\ update.called
  /\ update.applied
  /\ update.current_target = <<S123456, LabelX>>
  /\ issue.target = <<S123456, LabelX, S12345>>

\* C11: a failed issue.update is not fatal: the record is counted in
\* 'errors' and in neither 'updated' nor 'skipped', the for loop goes on, and
\* it ends only with every accepted record processed and exit code 0.
C11_MutationFailureNonFatal ==
  [][/\ (pc = "process" /\ idx' = idx + 1 /\ update'.called /\ ~update'.applied)
          => /\ results'.errors = results.errors + 1
             /\ results'.updated = results.updated
             /\ results'.skipped = results.skipped
             /\ results'.processed = results.processed + 1
             /\ ~result'.success
             /\ pc' = "process"
             /\ exit_code' = 0
     /\ (pc = "process" /\ pc' # "process")
          => /\ pc' = "done"
             /\ exit_code' = 0
             /\ results'.processed = Len(all_issues)]_vars

C11_Witness ==
  /\ pc = "done"
  /\ update.called
  /\ update.applied
  /\ results.errors = 1
  /\ results.updated = 1
  /\ \E k \in Keys : k # update.key /\ updCalls[k] = 1

\* C12: a request answered with a status other than 200 is the last request
\* of the run: the error is raised at once, nothing is fetched or processed
\* after it, and the run aborts with a non-zero exit code.
C12_TransportErrorAborts ==
  \A i \in 1..Len(fetchLog) :
    fetchLog[i].status # 200 =>
      /\ i = Len(fetchLog)
      /\ fetch_count = Len(fetchLog)
      /\ pc = "abort"
      /\ exit_code # 0
      /\ results = ZeroCounters

C12_Witness ==
  /\ pc = "abort"
  /\ Len(fetchLog) >= 2
  /\ fetchLog[Len(fetchLog)].status = 500
  /\ Len(all_issues) >= 1
  /\ exit_code = 1

\* C14: each processed record adds one to 'processed' and one to exactly
\* one of 'updated', 'skipped', 'errors'; processed = updated + skipped +
\* errors in every state; no counter ever decreases; a run that completes
\* has counted every accepted record.
C14_CounterAccounting ==
  [][/\ results'.processed = results'.updated + results'.skipped + results'.errors
     /\ results'.processed >= results.processed
     /\ results'.updated >= results.updated
     /\ results'.skipped >= results.skipped
     /\ results'.errors >= results.errors
     /\ (pc = "process" /\ idx' = idx + 1)
          => /\ results'.processed = results.processed + 1
             /\ (results'.updated - results.updated)
                + (results'.skipped - results.skipped)
                + (results'.errors - results.errors) = 1
     /\ results' # results => (pc = "process" /\ idx' = idx + 1)
     /\ pc' = "done" => results'.processed = Len(all_issues')]_vars

C14_Witness ==
  /\ pc = "done"
  /\ results.updated >= 1
  /\ results.skipped >= 1
  /\ results.errors >= 1
  /\ results.processed = 3

NothingProcessed ==
  /\ results.processed = 0
  /\ \A k \in Keys : procCount[k] = 0 /\ updCalls[k] = 0

\* C16: every request of search_issues_v3 is sent before any record is
\* processed or updated, and a run aborted by a transport error has
\* processed and updated nothing.
C16_FetchBeforeProcess ==
  [][/\ fetch_count' # fetch_count => NothingProcessed /\ NothingProcessed'
     /\ pc' = "abort" => NothingProcessed']_vars

C16_Witness ==
  /\ pc = "done"
  /\ fetch_count >= 2
  /\ results.processed >= 2
  /\ results.updated >= 1

\* C17: with no cap and a store whose N distinct records stay as they are,
\* that answers with a non-empty prefix of what is left, an empty page from
\* offset N on, and a total of 0 or N, the search returns the N records once
\* each in store order and a run that completes has processed all N.
C17_Completeness ==
  (max_results = NoCap /\ StableStore) =>
    /\ duplicates = 0
    /\ pc = "search" => /\ start_at <= store.n
                        /\ Len(all_issues) = start_at
                        /\ \A i \in 1..Len(all_issues) : all_issues[i] = i
    /\ pc \in {"fetched", "process", "done"} =>
         /\ Len(all_issues) = store.n
         /\ \A i \in 1..store.n : all_issues[i] = i
    /\ pc = "done" => results.processed = store.n

C17_Witness ==
  /\ max_results = NoCap
  /\ store.kind = "short"
  /\ store.total = 0
  /\ store.n = MaxKeys
  /\ pc = "done"
  /\ fetch_count > store.n
  /\ results.processed = store.n

\* v is, between leading and trailing whitespace, the letters S and -
\* followed by MinDigits to MaxDigits decimal digits
WellFormed(v) ==
  /\ v # None
  /\ \E a, b \in 0..Len(v) :
       /\ b - a >= 2 + MinDigits
       /\ b - a <= 2 + MaxDigits
       /\ \A i \in 1..a : v[i] \in {" ", "\t", "\n"}
       /\ \A i \in (b + 1)..Len(v) : v[i] \in {" ", "\t", "\n"}
       /\ v[a + 1] = "S"
       /\ v[a + 2] = "-"
       /\ \A i \in (a + 3)..b :
            v[i] \in {"0", "1", "2", "3", "4", "5", "6", "7", "8", "9"}

\* C13: validate_value returns true exactly for the inputs whose trimmed
\* form is S- followed by 5 or 6 decimal digits and nothing else, and false
\* for every other input, absent, empty and blank ones included.
C13_Validator ==
  validation.done => (validation.valid <=> WellFormed(validation.value))

C13_Witness ==
  /\ validation.done
  /\ validation.valid
  /\ validation.value = <<"\t", " ", "S", "-", "7", "7", "7", "7", "7", "7", "\n">>

\* C15: on a source value that is absent, empty or not well formed
\* process_issue returns success=False, updated=False and calls no
\* issue.update; every issue.update call is for a well-formed source value
\* and sends a list that holds its trimmed form.
C15_MutationOnlyValidated ==
  /\ (calls > 0 /\ ~WellFormed(result.source_value)) =>
       /\ ~result.success
       /\ ~result.updated
       /\ ~update.called
       /\ updCalls[1] = 0
  /\ update.called =>
       /\ WellFormed(result.source_value)
       /\ Contains(update.new_value, strip(result.source_value))
       /\ update.applied => Contains(issue.target, strip(result.source_value))

C15_Witness ==
  /\ update.called
  /\ update.applied
  /\ result.source_value = <<" ">> \o S12345 \o <<" ">>
  /\ issue.target = <<LabelX, S12345>>

\* C18: every store of the model returns an empty page from some offset on;
\* whatever totals it reports, with or without a cap, with or without
\* duplicates, the fetch loop of search_issues_v3 is left.
C18_FetchLoopTerminates ==
  (pc = "search") ~> (pc \in {"fetched", "abort"})

C18_Witness ==
  /\ pc = "fetched"
  /\ store.kind = "any"
  /\ max_results = NoCap
  /\ duplicates >= 1
  /\ fetch_count >= 3
  /\ fetch_count < MaxFetches

====
